---- MODULE Spec2Model ----
(***************************************************************************)
(* Model of generarproyecto.py (jofavalle/prolatex): slugify,              *)
(* sustituir_placeholders, verificar_plantillas and crear_proyecto.        *)
(*                                                                         *)
(* Text is a sequence of characters.  A character is a TLA+ string; a run  *)
(* of ASCII letters that the program only ever treats as a unit (a key     *)
(* name such as TITULO, a fixed literal of a generated file) is written as *)
(* one such string.  Non-ASCII characters are written by name (a_acute).   *)
(*                                                                         *)
(* Three specifications share the module:                                  *)
(*   Spec      a sequence of crear_proyecto invocations on one filesystem  *)
(*   SpecSlug  slugify applied to every text up to MaxLen characters       *)
(*   SpecSub   sustituir_placeholders applied to bodies of up to MaxPiezas *)
(*             pieces under the mapping crear_proyecto builds              *)
(***************************************************************************)
EXTENDS Naturals, Sequences, FiniteSets, TLC

VARIABLES
    \* --- the environment of crear_proyecto
    storeExists,   \* TEMPLATES_DIR.exists()
    plantillas,    \* the template files of the store: name -> body
    dirs,          \* the directories of the filesystem below and including base
    files,         \* the files of the filesystem: set of [path, content]
    \* --- one invocation of crear_proyecto
    nombre, tipo, autor,   \* its arguments (directorio_base is Base)
    pc,            \* its position
    error,         \* which sys.exit(1) ended it, "" if none
    examined,      \* whether verificar_plantillas looked at the store
    faltantes,     \* the missing templates verificar_plantillas warned about
    slug, fecha, variables,   \* its locals
    \* --- history
    run,           \* number of invocations started
    dirs0, files0, \* the filesystem when the current invocation started
    sameArgs,      \* the current invocation repeats the previous one's arguments
    prevOutcome,   \* how the previous invocation ended ("none" before the first)
    \* --- the pure-function specifications
    texto, salida, \* slugify's input and output
    contenido, mapping, resultado,   \* sustituir_placeholders' inputs and output
    fpc            \* position of the pure-function specifications

vars == <<storeExists, plantillas, dirs, files, nombre, tipo, autor, pc, error,
          examined, faltantes, slug, fecha, variables, run, dirs0, files0, sameArgs,
          prevOutcome, texto, salida, contenido, mapping, resultado, fpc>>

envVars == <<storeExists, plantillas>>
fsVars == <<dirs, files>>
argVars == <<nombre, tipo, autor>>
localVars == <<slug, fecha, variables>>
histVars == <<run, dirs0, files0, sameArgs, prevOutcome>>
funVars == <<texto, salida, contenido, mapping, resultado, fpc>>

\* ------------------------------------------------------------------ bounds
MaxLen == 3
MaxPiezas == 2
MaxRuns == 2

\* ------------------------------------------------------------- characters
\* Representatives of the character classes slugify distinguishes.
AsciiLower == {"a", "e", "i", "m", "n", "u", "x",
               "titulo", "autor", "fecha", "nombre_archivo", "desconocido"}
AsciiUpper == {"A", "E", "M", "N", "U",
               "TITULO", "AUTOR", "FECHA", "NOMBRE_ARCHIVO", "DESCONOCIDO"}
Digits == {"0", "1", "2", "3", "4", "5", "6", "7", "8", "9"}
\* Letters outside ASCII: c with cedilla is not in the table of slugify.
OtherLower == {"c_cedilla", "a_acute", "e_acute", "n_tilde", "u_diaeresis"}
OtherUpper == {"C_cedilla", "A_acute", "E_acute", "N_tilde", "U_diaeresis"}
Whitespace == {" ", "TAB"}

\* str.lower() on one character
Minuscula(c) ==
    CASE c = "A" -> "a"
      [] c = "M" -> "m"
      [] c = "TITULO" -> "titulo"
      [] c = "AUTOR" -> "autor"
      [] c = "FECHA" -> "fecha"
      [] c = "NOMBRE_ARCHIVO" -> "nombre_archivo"
      [] c = "DESCONOCIDO" -> "desconocido"
      [] c = "C_cedilla" -> "c_cedilla"
      [] c = "A_acute" -> "a_acute"
      [] c = "E_acute" -> "e_acute"
      [] c = "N_tilde" -> "n_tilde"
      [] c = "U_diaeresis" -> "u_diaeresis"
      [] OTHER -> c

\* the table reemplazos of slugify, on the characters the model uses
Reemplazo(c) ==
    CASE c = "a_acute" -> "a"
      [] c = "e_acute" -> "e"
      [] c = "A_acute" -> "A"
      [] c = "E_acute" -> "E"
      [] c = "n_tilde" -> "n"
      [] c = "N_tilde" -> "N"
      [] c = "u_diaeresis" -> "u"
      [] c = "U_diaeresis" -> "U"
      [] OTHER -> c

\* \w of a Python 3 str pattern: any Unicode letter or digit, or underscore
IsWord(c) ==
    \/ c \in AsciiLower \cup AsciiUpper \cup Digits \cup OtherLower \cup OtherUpper
    \/ c = "_"

\* \s
IsSpace(c) == c \in Whitespace

\* ------------------------------------------------------------ text helpers
\* the loop over reemplazos: each listed character replaced throughout
Reemplazar(s) == [i \in 1..Len(s) |-> Reemplazo(s[i])]

\* str.lower()
Lower(s) == [i \in 1..Len(s) |-> Minuscula(s[i])]

RECURSIVE LStrip(_, _)
LStrip(s, cls) ==
    IF s # <<>> /\ Head(s) \in cls THEN LStrip(Tail(s), cls) ELSE s

RECURSIVE RStrip(_, _)
RStrip(s, cls) ==
    IF s # <<>> /\ s[Len(s)] \in cls THEN RStrip(SubSeq(s, 1, Len(s) - 1), cls) ELSE s

\* str.strip(chars)
StripOf(s, cls) == RStrip(LStrip(s, cls), cls)

\* re.sub(r"[cls]+", rep, s): every maximal run of cls characters becomes rep
RECURSIVE SubRuns(_, _, _)
SubRuns(s, cls, rep) ==
    IF s = <<>> THEN <<>>
    ELSE IF Head(s) \in cls THEN <<rep>> \o SubRuns(LStrip(s, cls), cls, rep)
    ELSE <<Head(s)>> \o SubRuns(Tail(s), cls, rep)

\* [^\w\s-] is removed: what stays
IsKept(c) == IsWord(c) \/ IsSpace(c) \/ c = "-"

\* ------------------------------------------------------------------ slugify
slugify(t) ==
    LET t1 == Reemplazar(t)                                 \* the reemplazos loop
        t2 == StripOf(Lower(t1), Whitespace)                \* .lower().strip()
        t3 == SelectSeq(t2, IsKept)                         \* re.sub(r"[^\w\s-]", "")
        t4 == SubRuns(t3, Whitespace \cup {"_"}, "-")       \* re.sub(r"[\s_]+", "-")
        t5 == SubRuns(t4, {"-"}, "-")                       \* re.sub(r"-+", "-")
    IN  StripOf(t5, {"-"})                                  \* .strip("-")

\* --------------------------------------------------- sustituir_placeholders
\* f"{{{{{clave}}}}}": the key between two opening and two closing braces
Wrapped(clave) == <<"{", "{", clave, "}", "}">>

IsPrefix(p, s) == Len(p) <= Len(s) /\ SubSeq(s, 1, Len(p)) = p

\* str.replace(old, new) for a non-empty old: the occurrences of old, found
\* left to right without overlap, each become new
RECURSIVE Replace(_, _, _)
Replace(s, old, new) ==
    IF Len(s) < Len(old) THEN s
    ELSE IF IsPrefix(old, s)
         THEN new \o Replace(SubSeq(s, Len(old) + 1, Len(s)), old, new)
         ELSE <<Head(s)>> \o Replace(Tail(s), old, new)

\* variables is a dict: here the sequence of its items in iteration
\* (insertion) order, each [clave, valor].  One str.replace per item, each
\* applied to the result of the one before.
RECURSIVE sustituir_placeholders(_, _)
sustituir_placeholders(c, vs) ==
    IF vs = <<>> THEN c
    ELSE sustituir_placeholders(Replace(c, Wrapped(vs[1].clave), vs[1].valor), Tail(vs))

\* the dict crear_proyecto builds
Variables(n, a, f, sl) ==
    << [clave |-> "TITULO", valor |-> n],
       [clave |-> "AUTOR", valor |-> a],
       [clave |-> "FECHA", valor |-> f],
       [clave |-> "NOMBRE_ARCHIVO", valor |-> sl] >>

\* ------------------------------------------------------------ configuration
\* TIPOS
TIPOS ==
    [art  |-> [plantilla |-> "articulo.tex", clase |-> "article"],
     ens  |-> [plantilla |-> "ensayo.tex", clase |-> "report"],
     pres |-> [plantilla |-> "presentacion.tex", clase |-> "beamer"]]

\* archivos_necesarios of verificar_plantillas
archivos_necesarios ==
    <<"articulo.tex", "ensayo.tex", "presentacion.tex", "referencias.bib", "Makefile">>

meses_es ==
    <<"enero", "febrero", "marzo", "abril", "mayo", "junio", "julio", "agosto",
      "septiembre", "octubre", "noviembre", "diciembre">>

DigitChar == <<"0", "1", "2", "3", "4", "5", "6", "7", "8", "9">>

\* the decimal text of a natural number, as an f-string formats it
RECURSIVE Str(_)
Str(n) ==
    IF n < 10 THEN <<DigitChar[n + 1]>>
    ELSE Str(n \div 10) \o <<DigitChar[(n % 10) + 1]>>

\* f"{hoy.day} de {meses_es[hoy.month]} de {hoy.year}"
FormatFecha(hoy) ==
    Str(hoy.day) \o <<" de ", meses_es[hoy.month], " de ">> \o Str(hoy.year)

\* the minimal document written when the type's template is missing
DocumentoMinimo(clase, n, a, f) ==
    <<"\\documentclass{", clase, "}\n", "\\title{">> \o n
    \o <<"}\n", "\\author{">> \o a
    \o <<"}\n", "\\date{">> \o f
    \o <<"}\n", "\\begin{document}\n", "\\maketitle\n\n", "\\end{document}\n">>

\* the stub written when referencias.bib is missing from the store
BibStub == <<"% Referencias bibliograficas\n">>

\* gitignore_contenido
gitignore_contenido ==
    <<"# LaTeX auxiliares\n", "*.aux\n", "*.bbl\n", "*.bcf\n", "*.blg\n", "*.log\n",
      "*.nav\n", "*.out\n", "*.run.xml\n", "*.snm\n", "*.toc\n", "*.vrb\n",
      "*.fdb_latexmk\n", "*.fls\n", "*.synctex.gz\n", "\n",
      "# PDF generado (descomenta si no quieres versionarlo)\n", "# *.pdf\n">>

\* --------------------------------------------------------------- filesystem
\* A path is the sequence of its components below the root; a component is
\* a text.  directorio_base is one fixed directory, which may or may not exist.
Base == << <<"base">> >>

\* pathlib's p / name: joining the empty name gives p itself
Join(p, name) == IF name = <<>> THEN p ELSE Append(p, name)

\* Path.exists() on the filesystem (ds, fs)
Exists(ds, fs, p) == p \in ds \/ \E f \in fs : f.path = p

\* Path.mkdir(parents=True) of a path that does not exist: the path and
\* every missing ancestor become directories
MkdirParents(ds, p) == ds \cup {SubSeq(p, 1, k) : k \in 1..Len(p)}

\* Path.write_text: creates or truncates the file
WriteText(fs, p, c) == {f \in fs : f.path # p} \cup {[path |-> p, content |-> c]}

\* the content of file p, <<>> if there is none
ContentOf(fs, p) ==
    IF \E f \in fs : f.path = p THEN (CHOOSE f \in fs : f.path = p).content ELSE <<>>

IsFile(fs, p) == \E f \in fs : f.path = p

\* ------------------------------------------------------------------- inputs
\* the titles, types, authors and dates the invocations are given
Nombres == { <<"M", "i">>, <<"!">> }
Tipos == {"art", "ens", "pres", "xyz"}
Autores == { <<"A", "x">>, Wrapped("FECHA") }
Fechas == { [day |-> 3, month |-> 11, year |-> 2026],
            [day |-> 14, month |-> 1, year |-> 2027] }

\* the body each template has when the store holds it
CuerpoPlantilla ==
    [n \in {archivos_necesarios[i] : i \in 1..Len(archivos_necesarios)} |->
        CASE n = "articulo.tex" ->
                <<"art:">> \o Wrapped("TITULO") \o <<"/">> \o Wrapped("AUTOR")
          [] n = "ensayo.tex" ->
                <<"ens:">> \o Wrapped("TITULO") \o <<"/">> \o Wrapped("FECHA")
          [] n = "presentacion.tex" ->
                <<"pres:">> \o Wrapped("DESCONOCIDO") \o Wrapped("TITULO")
          [] n = "referencias.bib" ->
                <<"@misc{">> \o Wrapped("NOMBRE_ARCHIVO") \o <<"}">>
          [] n = "Makefile" ->
                <<"MAIN=">> \o Wrapped("NOMBRE_ARCHIVO")]

\* the filesystems an invocation may start on: no base directory, an empty
\* one, and one that already holds a directory mi with a file of its own
ViejoDir == Join(Base, <<"m", "i">>)
ViejoArchivo == [path |-> Join(ViejoDir, <<"notas.txt">>), content |-> <<"x">>]
InitialFs ==
    { [dirs |-> {}, files |-> {}],
      [dirs |-> {Base}, files |-> {}],
      [dirs |-> {Base, ViejoDir}, files |-> {ViejoArchivo}] }

\* ------------------------------------------------------------ crear_proyecto
\* The pure-function variables stay put while crear_proyecto runs.
NoFun ==
    /\ texto = <<>> /\ salida = <<>>
    /\ contenido = <<>> /\ mapping = <<>> /\ resultado = <<>>
    /\ fpc = "none"

Init ==
    /\ storeExists \in BOOLEAN
    /\ \E present \in SUBSET DOMAIN CuerpoPlantilla :
          /\ storeExists \/ present = {}
          /\ plantillas = [n \in present |-> CuerpoPlantilla[n]]
    /\ \E fs \in InitialFs : dirs = fs.dirs /\ files = fs.files
    /\ nombre = <<>> /\ tipo = "" /\ autor = <<>>
    /\ pc = "idle" /\ error = "" /\ examined = FALSE /\ faltantes = <<>>
    /\ slug = <<>> /\ fecha = <<>> /\ variables = <<>>
    /\ run = 0 /\ dirs0 = dirs /\ files0 = files
    /\ sameArgs = FALSE /\ prevOutcome = "none"
    /\ NoFun

Terminal == {"idle", "done", "fatal"}

\* how the invocation that just ended, if any, ended
Outcome == IF pc = "idle" THEN "none" ELSE IF pc = "done" THEN "ok" ELSE error

\* main() calls crear_proyecto(nombre, tipo, autor, directorio_base): one
\* more invocation on the filesystem the earlier ones left
Invoke(n, t, a) ==
    /\ pc \in Terminal
    /\ run < MaxRuns
    /\ nombre' = n /\ tipo' = t /\ autor' = a
    /\ pc' = "tipo" /\ error' = "" /\ examined' = FALSE /\ faltantes' = <<>>
    /\ slug' = <<>> /\ fecha' = <<>> /\ variables' = <<>>
    /\ run' = run + 1 /\ dirs0' = dirs /\ files0' = files
    /\ sameArgs' = (run > 0 /\ n = nombre /\ t = tipo /\ a = autor)
    /\ prevOutcome' = Outcome
    /\ UNCHANGED <<envVars, fsVars, funVars>>

\* sys.exit(1) after the message named what
Exit(what) == pc' = "fatal" /\ error' = what

\* if tipo not in TIPOS: ... sys.exit(1)
ValidarTipo ==
    /\ pc = "tipo"
    /\ IF tipo \notin DOMAIN TIPOS
       THEN Exit("tipo")
       ELSE pc' = "plantillas" /\ UNCHANGED error
    /\ UNCHANGED <<envVars, fsVars, argVars, examined, faltantes, localVars,
                   histVars, funVars>>

\* an absent store only warned about, like an absent template
verificar_plantillas_SoloAviso ==
    /\ pc = "plantillas"
    /\ examined' = TRUE
    /\ faltantes' = SelectSeq(archivos_necesarios, LAMBDA a : a \notin DOMAIN plantillas)
    /\ pc' = "variables"
    /\ UNCHANGED <<envVars, fsVars, argVars, error, localVars, histVars, funVars>>

\* verificar_plantillas()
verificar_plantillas ==
    /\ pc = "plantillas"
    /\ examined' = TRUE
    /\ IF ~storeExists
       THEN Exit("plantillas") /\ UNCHANGED faltantes
       ELSE /\ faltantes' = SelectSeq(archivos_necesarios,
                                      LAMBDA a : a \notin DOMAIN plantillas)
            /\ pc' = "variables" /\ UNCHANGED error
    /\ UNCHANGED <<envVars, fsVars, argVars, localVars, histVars, funVars>>

\* slug, fecha and the dict variables
ComputarVariables ==
    /\ pc = "variables"
    /\ \E hoy \in Fechas :
          /\ slug' = slugify(nombre)
          /\ fecha' = FormatFecha(hoy)
          /\ variables' = Variables(nombre, autor, fecha', slug')
    /\ pc' = "existe"
    /\ UNCHANGED <<envVars, fsVars, argVars, error, examined, faltantes,
                   histVars, funVars>>

\* dir_proyecto = directorio_base / slug
dir_proyecto == Join(Base, slug)

\* the existence check with the directories made first (mkdir with
\* exist_ok=True ahead of the check)
VerificarExiste_TrasMkdir ==
    /\ pc = "existe"
    /\ dirs' = MkdirParents(dirs, Join(dir_proyecto, <<"figuras">>))
    /\ IF Exists(dirs, files, dir_proyecto)
       THEN Exit("existe")
       ELSE pc' = "mkdir" /\ UNCHANGED error
    /\ UNCHANGED <<envVars, files, argVars, examined, faltantes, localVars,
                   histVars, funVars>>

\* no existence check: an existing directory is written into
VerificarExiste_Ignora ==
    /\ pc = "existe"
    /\ pc' = "mkdir"
    /\ UNCHANGED <<envVars, fsVars, argVars, error, examined, faltantes, localVars,
                   histVars, funVars>>

\* if dir_proyecto.exists(): ... sys.exit(1)
VerificarExiste ==
    /\ pc = "existe"
    /\ IF Exists(dirs, files, dir_proyecto)
       THEN Exit("existe")
       ELSE pc' = "mkdir" /\ UNCHANGED error
    /\ UNCHANGED <<envVars, fsVars, argVars, examined, faltantes, localVars,
                   histVars, funVars>>

\* mkdir() without parents=True: FileNotFoundError when directorio_base is
\* not there
CrearDirectorio_SinParents ==
    /\ pc = "mkdir"
    /\ IF Len(dir_proyecto) > 1 /\ SubSeq(dir_proyecto, 1, Len(dir_proyecto) - 1) \notin dirs
       THEN Exit("mkdir") /\ UNCHANGED dirs
       ELSE dirs' = dirs \cup {dir_proyecto} /\ pc' = "figuras" /\ UNCHANGED error
    /\ UNCHANGED <<envVars, files, argVars, examined, faltantes, localVars,
                   histVars, funVars>>

\* dir_proyecto.mkdir(parents=True)
CrearDirectorio ==
    /\ pc = "mkdir"
    /\ dirs' = MkdirParents(dirs, dir_proyecto)
    /\ pc' = "figuras"
    /\ UNCHANGED <<envVars, files, argVars, error, examined, faltantes, localVars,
                   histVars, funVars>>

\* (dir_proyecto / "figuras").mkdir()
CrearFiguras ==
    /\ pc = "figuras"
    /\ dirs' = dirs \cup {Join(dir_proyecto, <<"figuras">>)}
    /\ pc' = "principal"
    /\ UNCHANGED <<envVars, files, argVars, error, examined, faltantes, localVars,
                   histVars, funVars>>

\* copiar_plantilla(origen, destino, variables) on the files fs
copiar_plantilla(fs, origen, destino, vs) ==
    WriteText(fs, destino, sustituir_placeholders(plantillas[origen], vs))

archivo_tex == Join(dir_proyecto, slug \o <<".tex">>)

\* the main document: the type's template rendered, or the minimal document
EscribirPrincipal ==
    /\ pc = "principal"
    /\ LET info_tipo == TIPOS[tipo]
       IN  files' =
             IF info_tipo.plantilla \in DOMAIN plantillas
             THEN copiar_plantilla(files, info_tipo.plantilla, archivo_tex, variables)
             ELSE WriteText(files, archivo_tex,
                            DocumentoMinimo(info_tipo.clase, nombre, autor, fecha))
    /\ pc' = "bib"
    /\ UNCHANGED <<envVars, dirs, argVars, error, examined, faltantes, localVars,
                   histVars, funVars>>

archivo_bib == Join(dir_proyecto, <<"referencias.bib">>)

\* the stub written with the title after it
EscribirBib_ConTitulo ==
    /\ pc = "bib"
    /\ files' =
          IF "referencias.bib" \in DOMAIN plantillas
          THEN copiar_plantilla(files, "referencias.bib", archivo_bib, variables)
          ELSE WriteText(files, archivo_bib, BibStub \o nombre)
    /\ pc' = "makefile"
    /\ UNCHANGED <<envVars, dirs, argVars, error, examined, faltantes, localVars,
                   histVars, funVars>>

\* referencias.bib: the template rendered, or the stub
EscribirBib ==
    /\ pc = "bib"
    /\ files' =
          IF "referencias.bib" \in DOMAIN plantillas
          THEN copiar_plantilla(files, "referencias.bib", archivo_bib, variables)
          ELSE WriteText(files, archivo_bib, BibStub)
    /\ pc' = "makefile"
    /\ UNCHANGED <<envVars, dirs, argVars, error, examined, faltantes, localVars,
                   histVars, funVars>>

archivo_makefile == Join(dir_proyecto, <<"Makefile">>)

\* an empty Makefile written when the template is missing
EscribirMakefile_Vacio ==
    /\ pc = "makefile"
    /\ files' =
          IF "Makefile" \in DOMAIN plantillas
          THEN copiar_plantilla(files, "Makefile", archivo_makefile, variables)
          ELSE WriteText(files, archivo_makefile, <<>>)
    /\ pc' = "gitignore"
    /\ UNCHANGED <<envVars, dirs, argVars, error, examined, faltantes, localVars,
                   histVars, funVars>>

\* Makefile: the template rendered, or nothing
EscribirMakefile ==
    /\ pc = "makefile"
    /\ files' =
          IF "Makefile" \in DOMAIN plantillas
          THEN copiar_plantilla(files, "Makefile", archivo_makefile, variables)
          ELSE files
    /\ pc' = "gitignore"
    /\ UNCHANGED <<envVars, dirs, argVars, error, examined, faltantes, localVars,
                   histVars, funVars>>

archivo_gitignore == Join(dir_proyecto, <<".gitignore">>)

\* .gitignore, always
EscribirGitignore ==
    /\ pc = "gitignore"
    /\ files' = WriteText(files, archivo_gitignore, gitignore_contenido)
    /\ pc' = "resumen"
    /\ UNCHANGED <<envVars, dirs, argVars, error, examined, faltantes, localVars,
                   histVars, funVars>>

\* the summary is printed and crear_proyecto returns
Resumen ==
    /\ pc = "resumen"
    /\ pc' = "done"
    /\ UNCHANGED <<envVars, fsVars, argVars, error, examined, faltantes, localVars,
                   histVars, funVars>>

Next ==
    \/ \E n \in Nombres, t \in Tipos, a \in Autores : Invoke(n, t, a)
    \/ ValidarTipo
    \/ verificar_plantillas
    \/ ComputarVariables
    \/ VerificarExiste
    \/ CrearDirectorio
    \/ CrearFiguras
    \/ EscribirPrincipal
    \/ EscribirBib
    \/ EscribirMakefile
    \/ EscribirGitignore
    \/ Resumen

Spec == Init /\ [][Next]_vars

\* ==================================================== crear_proyecto: claims
\* an invocation has been started
Invoked == pc # "idle"

\* the conditions of the three fatal exits, as the invocation found them
TipoMalo == tipo \notin DOMAIN TIPOS
SinStore == ~storeExists
Colision == Exists(dirs0, files0, Join(Base, slugify(nombre)))

\* what the current invocation has created or written
Created == (dirs \ dirs0) \cup {f.path : f \in files \ files0}

\* C1 as stated: whatever the arguments, of two invocations with identical
\* arguments the first succeeds and the second ends with the collision error
\* at the existence check, the filesystem being as the first left it.
C1_Original ==
    (sameArgs /\ pc \in {"done", "fatal"}) =>
        /\ prevOutcome = "ok"
        /\ pc = "fatal" /\ error = "existe"
        /\ dirs = dirs0 /\ files = files0

\* C1 amended: when the first of two invocations with identical arguments
\* succeeds, the second never changes the filesystem and goes no further
\* than the existence check, where it ends with the collision error.
C1_Amended ==
    (sameArgs /\ prevOutcome = "ok") =>
        /\ dirs = dirs0 /\ files = files0
        /\ pc \in {"tipo", "plantillas", "variables", "existe", "fatal"}
        /\ pc = "fatal" => error = "existe"

C1_Witness ==
    /\ sameArgs /\ prevOutcome = "ok"
    /\ pc = "fatal" /\ error = "existe"
    /\ files # {}

\* C2: an invocation that ends in a fatal exit has created no directory and
\* written no file: the three fatal checks all come before the first change
\* of the filesystem.
C2_FatalBeforeMutation ==
    /\ pc = "fatal" => dirs = dirs0 /\ files = files0
    /\ pc \in {"tipo", "plantillas", "variables", "existe"} => dirs = dirs0 /\ files = files0
    /\ pc = "fatal" => error \in {"tipo", "plantillas", "existe"}

C2_Witness ==
    /\ pc = "fatal" /\ error = "existe"
    /\ ViejoDir \in dirs0 /\ dir_proyecto = ViejoDir

\* C6: with the store present, the type valid and the target absent,
\* crear_proyecto succeeds whichever templates are missing, and the project
\* then holds <slug>.tex, referencias.bib, figuras and the fixed .gitignore,
\* and a Makefile exactly when the store has the Makefile template.
C6_Degrades ==
    /\ (Invoked /\ ~TipoMalo /\ ~SinStore /\ ~Colision) => pc # "fatal"
    /\ pc = "done" =>
          /\ dir_proyecto \in dirs
          /\ Join(dir_proyecto, <<"figuras">>) \in dirs
          /\ IsFile(files, archivo_tex)
          /\ IsFile(files, archivo_bib)
          /\ IsFile(files, archivo_gitignore)
          /\ ContentOf(files, archivo_gitignore) = gitignore_contenido
          /\ IsFile(files, archivo_makefile) <=> "Makefile" \in DOMAIN plantillas

C6_Witness ==
    /\ pc = "done" /\ storeExists /\ DOMAIN plantillas = {}
    /\ ~IsFile(files, archivo_makefile)
    /\ ContentOf(files, archivo_tex) = DocumentoMinimo(TIPOS[tipo].clase, nombre, autor, fecha)

\* C7: without the bibliography template, referencias.bib is exactly the
\* fixed comment line, whatever the title, author, date, slug and the other
\* templates; with it, referencias.bib is the rendered template.
C7_BibStub ==
    pc = "done" =>
        ContentOf(files, archivo_bib) =
            IF "referencias.bib" \notin DOMAIN plantillas
            THEN BibStub
            ELSE sustituir_placeholders(CuerpoPlantilla["referencias.bib"], variables)

C7_Witness ==
    /\ pc = "done"
    /\ "referencias.bib" \notin DOMAIN plantillas
    /\ DOMAIN plantillas # {}
    /\ ContentOf(files, archivo_bib) = BibStub

\* C8 as stated: the type check and the existence check are the only fatal
\* exits: with the type valid and the target absent no invocation ends in
\* an error.
C8_Original ==
    (Invoked /\ ~TipoMalo /\ ~Colision) => pc # "fatal"

\* C8 amended: the type check, the store check and the existence check are
\* the only fatal exits: with the type valid, the store present and the
\* target absent the invocation never exits with an error: it is at one of
\* the steps, each of which leads on, or has reported.
C8_Amended ==
    /\ pc = "fatal" => error \in {"tipo", "plantillas", "existe"}
    /\ (Invoked /\ ~TipoMalo /\ ~SinStore /\ ~Colision) =>
          pc \in {"tipo", "plantillas", "variables", "existe", "mkdir", "figuras",
                  "principal", "bib", "makefile", "gitignore", "resumen", "done"}

C8_Witness ==
    /\ pc = "done" /\ ~TipoMalo /\ ~SinStore /\ ~Colision
    /\ faltantes # <<>>

\* the steps in the order of the code
Orden ==
    <<"tipo", "plantillas", "variables", "existe", "mkdir", "figuras", "principal",
      "bib", "makefile", "gitignore", "resumen", "done", "fatal">>

Pos(p) == CHOOSE i \in 1..Len(Orden) : Orden[i] = p

\* C9: the steps run in the order validate type, resolve store, compute
\* variables, collision check, materialize, ignore-list, report, never going
\* back; so of several fatal conditions the earliest is the one reported: a
\* bad type without the store being looked at, an absent store even when the
\* target exists.
C9_Sequential ==
    /\ [][(pc \notin Terminal /\ pc' # pc) => Pos(pc') > Pos(pc)]_vars
    /\ [](pc = "fatal" =>
            /\ error = IF TipoMalo THEN "tipo"
                       ELSE IF SinStore THEN "plantillas" ELSE "existe"
            /\ error = "tipo" => ~examined
            /\ error = "existe" => Colision)

C9_Witness ==
    /\ pc = "fatal" /\ error = "plantillas" /\ examined
    /\ Colision

\* C10: whatever the title and the base directory, everything an invocation
\* creates lies inside a new directory that is a strict child of the base
\* directory and is named by a non-empty slug; nothing is written into the
\* base directory itself and the base directory is never the project
\* directory.  (A missing base directory made as the parent of the project
\* directory is not counted against the claim.)
C10_InsideChild ==
    \A p \in Created :
        /\ slugify(nombre) # <<>>
        /\ p = Base \/ IsPrefix(Append(Base, slugify(nombre)), p)

\* ------------------------------------------------- slugify on bounded texts
\* crear_proyecto stays idle while a pure function is exercised.
NoRun ==
    /\ storeExists = FALSE /\ plantillas = <<>>
    /\ dirs = {} /\ files = {}
    /\ nombre = <<>> /\ tipo = "" /\ autor = <<>>
    /\ pc = "idle" /\ error = "" /\ examined = FALSE /\ faltantes = <<>>
    /\ slug = <<>> /\ fecha = <<>> /\ variables = <<>>
    /\ run = 0 /\ dirs0 = {} /\ files0 = {}
    /\ sameArgs = FALSE /\ prevOutcome = "none"

runVars == <<envVars, fsVars, argVars, pc, error, examined, faltantes, localVars,
             histVars>>

\* one character of each class slugify distinguishes
Alfabeto == {"a", "M", "1", "_", " ", "-", "!", "a_acute", "E_acute", "C_cedilla"}

SeqsUpTo(S, n) == UNION {[1..k -> S] : k \in 0..n}

InitSlug ==
    /\ texto \in SeqsUpTo(Alfabeto, MaxLen)
    /\ salida = <<>>
    /\ contenido = <<>> /\ mapping = <<>> /\ resultado = <<>>
    /\ fpc = "call"
    /\ NoRun

CallSlugify ==
    /\ fpc = "call"
    /\ salida' = slugify(texto)
    /\ fpc' = "returned"
    /\ UNCHANGED <<runVars, texto, contenido, mapping, resultado>>

NextSlug == CallSlugify

SpecSlug == InitSlug /\ [][NextSlug]_vars

\* ---------------------------------- sustituir_placeholders on bounded bodies
\* what a body is put together from: tokens of keys, a token of no key,
\* loose braces, a key name followed by closing braces, plain text
Piezas ==
    { Wrapped("TITULO"), Wrapped("AUTOR"), Wrapped("DESCONOCIDO"),
      <<"{", "{">>, <<"}", "}">>, <<"AUTOR", "}", "}">>, <<"x">> }

RECURSIVE Concat(_)
Concat(ss) == IF ss = <<>> THEN <<>> ELSE Head(ss) \o Concat(Tail(ss))

Cuerpos == {Concat(ps) : ps \in SeqsUpTo(Piezas, MaxPiezas)}

\* titles and authors, some holding braces or a token
TitulosSub == { <<"M", "i">>, <<>>, Wrapped("AUTOR"), <<"{", "{">> }
AutoresSub == { <<"A", "x">>, Wrapped("TITULO"), Wrapped("FECHA") }

InitSub ==
    /\ contenido \in Cuerpos
    /\ \E n \in TitulosSub, a \in AutoresSub, hoy \in Fechas :
          mapping = Variables(n, a, FormatFecha(hoy), slugify(n))
    /\ resultado = <<>>
    /\ texto = <<>> /\ salida = <<>>
    /\ fpc = "call"
    /\ NoRun

CallSustituir ==
    /\ fpc = "call"
    /\ resultado' = sustituir_placeholders(contenido, mapping)
    /\ fpc' = "returned"
    /\ UNCHANGED <<runVars, texto, salida, contenido, mapping>>

NextSub == CallSustituir

SpecSub == InitSub /\ [][NextSub]_vars

\* ======================================================== slugify: claims
\* C5: for every title, the output of slugify consists only of lowercase
\* ASCII letters, digits and hyphens, and has no leading hyphen, no trailing
\* hyphen and no two adjacent hyphens.
C5_SlugShape ==
    fpc = "returned" =>
        /\ \A i \in 1..Len(salida) : salida[i] \in AsciiLower \cup Digits \cup {"-"}
        /\ salida # <<>> => Head(salida) # "-" /\ salida[Len(salida)] # "-"
        /\ \A i \in 1..(Len(salida) - 1) : ~(salida[i] = "-" /\ salida[i + 1] = "-")

\* ========================================= sustituir_placeholders: claims
Claves(vs) == {vs[i].clave : i \in 1..Len(vs)}

\* some key's token starts s
KeyTokenAt(s, vs) == \E i \in 1..Len(vs) : IsPrefix(Wrapped(vs[i].clave), s)

\* the single pass the engine is specified to be: the body is scanned once,
\* left to right; a key's token is replaced by the key's value, which is not
\* scanned again; every other character is copied
RECURSIVE SinglePass(_, _)
SinglePass(c, vs) ==
    IF c = <<>> THEN <<>>
    ELSE IF KeyTokenAt(c, vs)
         THEN LET i == CHOOSE j \in 1..Len(vs) : IsPrefix(Wrapped(vs[j].clave), c)
              IN  vs[i].valor
                  \o SinglePass(SubSeq(c, Len(Wrapped(vs[i].clave)) + 1, Len(c)), vs)
         ELSE <<Head(c)>> \o SinglePass(Tail(c), vs)

\* C3: sustituir_placeholders is a single pass with no recursive expansion: a
\* value that contains the token of another key is inserted literally, and
\* the text inserted for one key is never rewritten by the substitution of
\* another key.
C3_SinglePass ==
    fpc = "returned" => resultado = SinglePass(contenido, mapping)

\* a double-brace token: two opening braces, a name, two closing braces
TokenAt(s, i) ==
    /\ i + 4 <= Len(s)
    /\ s[i] = "{" /\ s[i + 1] = "{"
    /\ s[i + 2] \notin {"{", "}"}
    /\ s[i + 3] = "}" /\ s[i + 4] = "}"

HasToken(s) == \E i \in 1..Len(s) : TokenAt(s, i)

\* the places where token t occurs in s
Occurrences(s, t) ==
    {i \in 1..Len(s) : i + Len(t) - 1 <= Len(s) /\ SubSeq(s, i, i + Len(t) - 1) = t}

\* the tokens of s whose name is not a key
UnknownTokens(s, vs) ==
    {SubSeq(s, i, i + 4) : i \in {j \in 1..Len(s) : TokenAt(s, j) /\ s[j + 2] \notin Claves(vs)}}

\* the text of the body outside the key tokens: the segments before, between
\* and after them, in order
RECURSIVE Segments(_, _, _)
Segments(s, vs, cur) ==
    IF s = <<>> THEN <<cur>>
    ELSE IF KeyTokenAt(s, vs)
         THEN <<cur>> \o Segments(SubSeq(s, Len(Wrapped("k")) + 1, Len(s)), vs, <<>>)
         ELSE Segments(Tail(s), vs, Append(cur, Head(s)))

\* r ends the segments segs, in order, with any text between them
RECURSIVE MatchRest(_, _)
MatchRest(segs, r) ==
    IF Len(segs) = 1
    THEN Len(segs[1]) <= Len(r)
         /\ SubSeq(r, Len(r) - Len(segs[1]) + 1, Len(r)) = segs[1]
    ELSE \E i \in 0..Len(r) :
            /\ i + Len(segs[1]) <= Len(r)
            /\ SubSeq(r, i + 1, i + Len(segs[1])) = segs[1]
            /\ MatchRest(Tail(segs), SubSeq(r, i + Len(segs[1]) + 1, Len(r)))

\* r is the body with nothing but its key tokens altered: the segments
\* outside them are all there, in order, from the first character to the last
OnlyKeyTokensAltered(body, vs, r) ==
    LET segs == Segments(body, vs, <<>>)
    IN  IF Len(segs) = 1 THEN r = body
        ELSE /\ IsPrefix(segs[1], r)
             /\ MatchRest(Tail(segs), SubSeq(r, Len(segs[1]) + 1, Len(r)))

\* C4, first part: a body with no double-brace token is returned unchanged.
C4_NoTokenUnchanged ==
    (fpc = "returned" /\ ~HasToken(contenido)) => resultado = contenido

\* C4, second part: every token whose name is not a key is still in the
\* output, as often as in the body.
C4_UnknownKept ==
    fpc = "returned" =>
        \A t \in UnknownTokens(contenido, mapping) :
            Cardinality(Occurrences(resultado, t)) >= Cardinality(Occurrences(contenido, t))

\* C4, third part: only the occurrences of a key's token are altered.
C4_OnlyKeysAltered ==
    fpc = "returned" => OnlyKeyTokensAltered(contenido, mapping, resultado)

\* C4: sustituir_placeholders leaves every token whose name is not a key
\* verbatim, returns a body without tokens unchanged, and alters only the
\* occurrences of the wrapped form of a key.
C4_Frame ==
    /\ C4_NoTokenUnchanged
    /\ C4_UnknownKept
    /\ C4_OnlyKeysAltered

====
